---- MODULE Spec2Model ----
(***************************************************************************)
(* Asset store and search-index commands of src-tauri/src/commands/        *)
(* database.rs.  Every #[command] is an async fn registered in             *)
(* lib.rs:invoke_handler, so several invocations can be in flight at once; *)
(* each invocation is a task that advances one filesystem operation at a   *)
(* time.  Commands that make no filesystem call, or whose filesystem calls *)
(* only ever add directories, are single steps.                            *)
(***************************************************************************)
EXTENDS Integers, Sequences, FiniteSets, TLC

\* ------------------------------------------------------------------ bounds
MaxCalls == 3        \* command invocations in one behaviour
MaxClock == 2        \* milliseconds the wall clock runs through

Tasks == {"t1", "t2"}   \* concurrently running command invocations

\* ------------------------------------------------------- the outside world
\* A source path is the sequence of its components; <<>> is the root "/".
SrcFile == <<"in", "foo.pdf">>
SrcRoot == <<>>
SrcGone == <<"in", "gone.txt">>
SourcePaths == {SrcFile, SrcRoot, SrcGone}

FileTypes == {"pdf", "image", "PDF"}

Absent == [kind |-> "absent", data |-> <<>>]
Directory == [kind |-> "dir", data |-> <<>>]
RegularFile(d) == [kind |-> "file", data |-> d]

\* What lies at each source path: a regular file of one chunk, a directory,
\* nothing.
InitSrcFS ==
  [s \in SourcePaths |->
     IF s = SrcFile THEN RegularFile(<<"c1">>)
     ELSE IF s = SrcRoot THEN Directory
     ELSE Absent]

Hole == ""           \* bytes of a file that were never written

VARIABLES
  srcFS,     \* source path -> what lies there
  blocked,   \* paths under the data directory that something other than a
             \* directory occupies (put there from outside the program)
  dirs,      \* directories existing under the data directory
  files,     \* regular files under the data directory: path -> chunks
  clock,     \* the last reading of the wall clock, in milliseconds
  pc,        \* task -> position in its command
  op,        \* task -> the command it runs and its arguments
  frame,     \* task -> local variables of copy_file_to_assets
  ret,       \* task -> the Result the command returned
  ncalls,    \* commands invoked so far
  removed,   \* locators whose file fs::remove_file removed and fs::copy has not re-created
  indexed    \* key -> content of fts_index_entity calls not followed by fts_remove_entity

vars == <<srcFS, blocked, dirs, files, clock, pc, op, frame, ret, ncalls, removed,
          indexed>>

\* ---------------------------------------------------------------- helpers
NoOp == [cmd |-> "", source_path |-> <<>>, file_type |-> "", relative_path |-> "",
         entity_type |-> "", entity_id |-> "", content |-> {}, query |-> ""]
NoFrame == [subdir |-> "", timestamp |-> 0, new_filename |-> "", offset |-> 0,
            linked |-> FALSE]
NoRet == [status |-> "", path |-> "", flag |-> FALSE, results |-> <<>>]

Ok(path, flag, results) ==
  [status |-> "Ok", path |-> path, flag |-> flag, results |-> results]
Err == [status |-> "Err", path |-> "", flag |-> FALSE, results |-> <<>>]

\* PathBuf::join over a sequence of components.
RECURSIVE Join(_)
Join(comps) ==
  IF Len(comps) = 1 THEN comps[1]
  ELSE Join(SubSeq(comps, 1, Len(comps) - 1)) \o "/" \o comps[Len(comps)]

\* Path::exists
Exists(fs, source_path) == fs[source_path].kind # "absent"

\* source.file_name().and_then(|n| n.to_str()).unwrap_or("file")
OriginalName(source_path) ==
  IF source_path = <<>> THEN "file" ELSE source_path[Len(source_path)]

SubdirNoImages(file_type) == IF file_type = "pdf" THEN "pdfs" ELSE "other"

\* match file_type.as_str() { "pdf" => "pdfs", "image" => "images", _ => "other" }
Subdir(file_type) ==
  IF file_type = "pdf" THEN "pdfs"
  ELSE IF file_type = "image" THEN "images"
  ELSE "other"

NewFilenameNoStamp(timestamp, original_name) == "0_" \o original_name

\* format!("{}_{}", timestamp, original_name)
NewFilename(timestamp, original_name) ==
  ToString(timestamp) \o "_" \o original_name

\* format!("{}/{}", subdir, new_filename)
RelativePath(subdir, new_filename) == subdir \o "/" \o new_filename

\* app_data_dir.join("assets").join(&relative_path), relative to app_data_dir
AssetPath(relative_path) == Join(<<"assets", relative_path>>)

\* assets_dir.join(&new_filename), relative to app_data_dir
TargetPath(subdir, new_filename) == Join(<<"assets", subdir, new_filename>>)

\* fs::create_dir_all: every missing ancestor, then the directory itself; it
\* fails at the first component that exists and is not a directory.
RECURSIVE CreateDirAll(_, _, _)
CreateDirAll(ds, bl, comps) ==
  IF comps = <<>> THEN [ok |-> TRUE, dirs |-> ds]
  ELSE LET parent == CreateDirAll(ds, bl, SubSeq(comps, 1, Len(comps) - 1))
       IN IF ~parent.ok THEN parent
          ELSE IF Join(comps) \in bl THEN [ok |-> FALSE, dirs |-> parent.dirs]
          ELSE [ok |-> TRUE, dirs |-> parent.dirs \cup {Join(comps)}]

directoriesNoTemp ==
  << <<"assets", "pdfs">>, <<"assets", "images">>, <<"assets", "other">>,
     <<"backups">> >>

\* The fixed skeleton of ensure_directory_structure.
directories ==
  << <<"assets", "pdfs">>, <<"assets", "images">>, <<"assets", "other">>,
     <<"backups">>, <<"temp">> >>

\* for dir in &directories { create_dir_all(dir)? }
RECURSIVE EnsureLoop(_, _, _)
EnsureLoop(ds, bl, i) ==
  IF i > Len(directories) THEN [ok |-> TRUE, dirs |-> ds]
  ELSE LET r == CreateDirAll(ds, bl, directories[i])
       IN IF ~r.ok THEN r ELSE EnsureLoop(r.dirs, bl, i + 1)

\* A write of one chunk at position k of a file (the writer's own offset).
WriteAt(data, k, c) ==
  [i \in 1..(IF Len(data) > k THEN Len(data) ELSE k) |->
     IF i = k THEN c ELSE IF i <= Len(data) THEN data[i] ELSE Hole]

UnlinkNothing(fs, path) == fs

\* The file system without the file at path.
Unlink(fs, path) == [q \in DOMAIN fs \ {path} |-> fs[q]]

\* The file system with an empty file at path (open with create + truncate).
CreateTruncate(fs, path) == (path :> <<>>) @@ fs

\* Locators copy_file_to_assets can return for SrcFile, and one it never does.
Locators ==
  {RelativePath(Subdir(ft), NewFilename(t, OriginalName(SrcFile))) :
     ft \in FileTypes, t \in 1..MaxClock}
NeverLocator == RelativePath("other", NewFilename(0, OriginalName(SrcFile)))

\* What the frontend passes to delete_asset_file: the locator of a file that is
\* there, of one that was deleted, or of one that never was.
DeleteInputs(fs, rm) ==
  {l \in Locators : AssetPath(l) \in DOMAIN fs \/ l \in rm} \cup {NeverLocator}

\* ------------------------------------------------------------------- Init
Init ==
  /\ srcFS = InitSrcFS
  /\ blocked \in {{}, {"assets/other"}}
  /\ dirs = {}
  /\ files = <<>>
  /\ clock = 1
  /\ pc = [p \in Tasks |-> "idle"]
  /\ op = [p \in Tasks |-> NoOp]
  /\ frame = [p \in Tasks |-> NoFrame]
  /\ ret = [p \in Tasks |-> NoRet]
  /\ ncalls = 0
  /\ removed = {}
  /\ indexed = <<>>

\* A command is invoked on an idle task.
Invoke(p, o) ==
  /\ pc[p] = "idle"
  /\ ncalls < MaxCalls
  /\ ncalls' = ncalls + 1
  /\ op' = [op EXCEPT ![p] = o]

\* The command of task p returns r.
Return(p, r) ==
  /\ pc' = [pc EXCEPT ![p] = "done"]
  /\ ret' = [ret EXCEPT ![p] = r]

\* The frontend takes the result; the task is free again.
Finish(p) ==
  /\ pc[p] = "done"
  /\ pc' = [pc EXCEPT ![p] = "idle"]
  /\ op' = [op EXCEPT ![p] = NoOp]
  /\ ret' = [ret EXCEPT ![p] = NoRet]
  /\ frame' = [frame EXCEPT ![p] = NoFrame]
  /\ UNCHANGED <<srcFS, blocked, dirs, files, clock, ncalls, removed, indexed>>

\* chrono::Utc::now().timestamp_millis(): a reading no earlier than the last one.
Now(last) == last..MaxClock

\* ---------------------------------------------------- copy_file_to_assets
\* Lines 354-367: the call and "Validate source exists".
CopyValidate(p, source_path, file_type) ==
  /\ Invoke(p, [NoOp EXCEPT !.cmd = "copy_file_to_assets",
                            !.source_path = source_path,
                            !.file_type = file_type])
  /\ IF ~Exists(srcFS, source_path)
       THEN Return(p, Err)
       ELSE /\ pc' = [pc EXCEPT ![p] = "create_dir"]
            /\ UNCHANGED ret
  /\ UNCHANGED <<srcFS, blocked, dirs, files, clock, frame, removed, indexed>>

\* Lines 369-394: subdirectory, create_dir_all, timestamp and target name.
CopyCreateDir(p, now) ==
  /\ pc[p] = "create_dir"
  /\ clock' = now
  /\ LET subdir == Subdir(op[p].file_type)
         made == CreateDirAll(dirs, blocked, <<"assets", subdir>>)
         new_filename == NewFilename(now, OriginalName(op[p].source_path))
     IN /\ dirs' = made.dirs
        /\ IF ~made.ok
             THEN /\ Return(p, Err)
                  /\ UNCHANGED frame
             ELSE /\ pc' = [pc EXCEPT ![p] = "copy_open"]
                  /\ frame' = [frame EXCEPT ![p] =
                       [subdir |-> subdir, timestamp |-> now,
                        new_filename |-> new_filename, offset |-> 0,
                        linked |-> FALSE]]
                  /\ UNCHANGED ret
  /\ UNCHANGED <<srcFS, blocked, files, op, ncalls, removed, indexed>>

\* Line 397, fs::copy: open the source, which must be a regular file, then
\* create or truncate the target.
CopyOpen(p) ==
  /\ pc[p] = "copy_open"
  /\ LET target_path == TargetPath(frame[p].subdir, frame[p].new_filename)
         relative_path == RelativePath(frame[p].subdir, frame[p].new_filename)
     IN IF srcFS[op[p].source_path].kind # "file"
          THEN /\ Return(p, Err)
               /\ UNCHANGED <<files, frame, removed>>
          ELSE /\ files' = CreateTruncate(files, target_path)
               /\ frame' = [frame EXCEPT ![p].linked = TRUE]
               /\ removed' = removed \ {relative_path}
               /\ pc' = [pc EXCEPT ![p] = "copy_data"]
               /\ UNCHANGED ret
  /\ UNCHANGED <<srcFS, blocked, dirs, clock, op, ncalls, indexed>>

\* Line 398: the copy stops on an I/O error; what was written stays.
CopyFail(p) ==
  /\ pc[p] = "copy_data"
  /\ Return(p, Err)
  /\ UNCHANGED <<srcFS, blocked, dirs, files, clock, op, frame, ncalls, removed,
                 indexed>>

\* Lines 397-404, fs::copy: the next chunk goes to the file the task holds
\* open, which is the file under the target name unless that was unlinked;
\* after the last chunk the command returns the relative path.
CopyData(p) ==
  /\ pc[p] = "copy_data"
  /\ LET target_path == TargetPath(frame[p].subdir, frame[p].new_filename)
         relative_path == RelativePath(frame[p].subdir, frame[p].new_filename)
         data == srcFS[op[p].source_path].data
         k == frame[p].offset + 1
     IN /\ files' = IF frame[p].linked
                      THEN [files EXCEPT ![target_path] = WriteAt(@, k, data[k])]
                      ELSE files
        /\ IF k = Len(data)
             THEN /\ Return(p, Ok(relative_path, FALSE, <<>>))
                  /\ frame' = [frame EXCEPT ![p].offset = k]
             ELSE /\ frame' = [frame EXCEPT ![p].offset = k]
                  /\ UNCHANGED <<pc, ret>>
  /\ UNCHANGED <<srcFS, blocked, dirs, clock, op, ncalls, removed, indexed>>

\* ------------------------------------------------------ delete_asset_file
\* Lines 409-421 and 426-429: the call and file_path.exists().
DeleteExists(p, relative_path) ==
  /\ Invoke(p, [NoOp EXCEPT !.cmd = "delete_asset_file",
                            !.relative_path = relative_path])
  /\ IF AssetPath(relative_path) \in DOMAIN files
       THEN /\ pc' = [pc EXCEPT ![p] = "remove_file"]
            /\ UNCHANGED ret
       ELSE Return(p, Ok("", FALSE, <<>>))
  /\ UNCHANGED <<srcFS, blocked, dirs, files, clock, frame, removed, indexed>>

\* Lines 422-425: fs::remove_file, an error when the file is no longer there.
DeleteRemove(p) ==
  /\ pc[p] = "remove_file"
  /\ LET file_path == AssetPath(op[p].relative_path)
     IN IF file_path \in DOMAIN files
          THEN /\ files' = Unlink(files, file_path)
               /\ frame' = [q \in Tasks |->
                    IF /\ pc[q] = "copy_data"
                       /\ TargetPath(frame[q].subdir, frame[q].new_filename) = file_path
                      THEN [frame[q] EXCEPT !.linked = FALSE]
                      ELSE frame[q]]
               /\ removed' = removed \cup {op[p].relative_path}
               /\ Return(p, Ok("", TRUE, <<>>))
          ELSE /\ Return(p, Err)
               /\ UNCHANGED <<files, frame, removed>>
  /\ UNCHANGED <<srcFS, blocked, dirs, clock, op, ncalls, indexed>>

\* --------------------------------------------- ensure_directory_structure
\* Lines 236-262.
ensure_directory_structure(p) ==
  /\ Invoke(p, [NoOp EXCEPT !.cmd = "ensure_directory_structure"])
  /\ LET made == EnsureLoop(dirs, blocked, 1)
     IN /\ dirs' = made.dirs
        /\ Return(p, IF made.ok THEN Ok("", TRUE, <<>>) ELSE Err)
  /\ UNCHANGED <<srcFS, blocked, files, clock, frame, removed, indexed>>

\* ------------------------------------------------------------------- Next
Next ==
  \/ \E p \in Tasks : Finish(p)
  \/ \E p \in Tasks, s \in SourcePaths, ft \in FileTypes : CopyValidate(p, s, ft)
  \/ \E p \in Tasks, now \in Now(clock) : CopyCreateDir(p, now)
  \/ \E p \in Tasks : CopyOpen(p)
  \/ \E p \in Tasks : CopyFail(p)
  \/ \E p \in Tasks : CopyData(p)
  \/ \E p \in Tasks, l \in DeleteInputs(files, removed) : DeleteExists(p, l)
  \/ \E p \in Tasks : DeleteRemove(p)
  \/ \E p \in Tasks : ensure_directory_structure(p)

Spec == Init /\ [][Next]_vars

\* ----------------------------------------------------------- search index
\* The three FTS5 commands are stubs: they log and return a constant.  The
\* code keeps no index; indexed records which keys the calls made so far have
\* upserted and not removed, so that their results can be compared with it.
EntityTypes == {"card", "tag"}
EntityIds == {"e1"}
Contents == {{"alpha", "beta"}, {"beta", "gamma"}}   \* the tokens of a content
Queries == {"alpha", "beta", "gamma"}

\* Lines 293-308.
fts_index_entity(p, entity_type, entity_id, content) ==
  /\ Invoke(p, [NoOp EXCEPT !.cmd = "fts_index_entity",
                            !.entity_type = entity_type,
                            !.entity_id = entity_id,
                            !.content = content])
  /\ Return(p, Ok("", TRUE, <<>>))
  /\ indexed' = (<<entity_type, entity_id>> :> content) @@ indexed
  /\ UNCHANGED <<srcFS, blocked, dirs, files, clock, frame, removed>>

\* Lines 310-321.
fts_remove_entity(p, entity_type, entity_id) ==
  /\ Invoke(p, [NoOp EXCEPT !.cmd = "fts_remove_entity",
                            !.entity_type = entity_type,
                            !.entity_id = entity_id])
  /\ Return(p, Ok("", TRUE, <<>>))
  /\ indexed' = [k \in DOMAIN indexed \ {<<entity_type, entity_id>>} |-> indexed[k]]
  /\ UNCHANGED <<srcFS, blocked, dirs, files, clock, frame, removed>>

\* Lines 275-291, called with types = [], date_from = date_to = limit = None.
fts_search(p, query) ==
  /\ Invoke(p, [NoOp EXCEPT !.cmd = "fts_search", !.query = query])
  /\ Return(p, Ok("", FALSE, <<>>))
  /\ UNCHANGED <<srcFS, blocked, dirs, files, clock, frame, removed, indexed>>

FtsNext ==
  \/ \E p \in Tasks : Finish(p)
  \/ \E p \in Tasks, t \in EntityTypes, i \in EntityIds, c \in Contents :
       fts_index_entity(p, t, i, c)
  \/ \E p \in Tasks, t \in EntityTypes, i \in EntityIds : fts_remove_entity(p, t, i)
  \/ \E p \in Tasks, q \in Queries : fts_search(p, q)

FtsSpec == Init /\ [][FtsNext]_vars

\* ================================================================= claims
\* Task p returns from its command in this step.
Returns(p) == pc[p] # "done" /\ pc'[p] = "done"

\* Task p holds the Ok result of a copy_file_to_assets call.
CopiedOk(p) ==
  /\ pc[p] = "done"
  /\ op[p].cmd = "copy_file_to_assets"
  /\ ret[p].status = "Ok"

\* The file of a returned locator is there, unless delete_asset_file removed it.
Resolves(locator) ==
  locator \notin removed => AssetPath(locator) \in DOMAIN files

\* Two calls, one per task, with the same source file and the same file_type.
SameIngestTwice(p, q) ==
  /\ p # q
  /\ CopiedOk(p) /\ CopiedOk(q)
  /\ op[p].source_path = op[q].source_path
  /\ op[p].file_type = op[q].file_type

\* C1 as stated: two copy_file_to_assets calls with the same source file and
\* the same file_type return distinct locators, also when both read the same
\* millisecond, and each locator resolves to an existing file.
C1_DistinctLocators ==
  \A p, q \in Tasks :
    SameIngestTwice(p, q) =>
      /\ ret[p].path # ret[q].path
      /\ Resolves(ret[p].path) /\ Resolves(ret[q].path)

\* C1 amended: two copy_file_to_assets calls with the same source file and the
\* same file_type that read different millisecond timestamps return distinct
\* locators, and each locator resolves to an existing file.
C1_DistinctWhenTimestampsDiffer ==
  \A p, q \in Tasks :
    (SameIngestTwice(p, q) /\ frame[p].timestamp # frame[q].timestamp) =>
      /\ ret[p].path # ret[q].path
      /\ Resolves(ret[p].path) /\ Resolves(ret[q].path)

C1_Witness ==
  \E p, q \in Tasks :
    /\ SameIngestTwice(p, q)
    /\ frame[p].timestamp # frame[q].timestamp
    /\ ret[p].path # ret[q].path
    /\ AssetPath(ret[p].path) \in DOMAIN files
    /\ AssetPath(ret[q].path) \in DOMAIN files

\* The locators of the form <category>/<timestamp>_<original-name>.
WellFormedLocators(source_path) ==
  {c \o "/" \o ToString(t) \o "_" \o OriginalName(source_path) :
     c \in {"pdfs", "images", "other"}, t \in 1..MaxClock}

\* C2: whenever copy_file_to_assets returns Ok(locator), assets/<locator> is a
\* file at the moment of return and the locator has the form
\* <category>/<timestamp>_<original-name>, category in {pdfs, images, other}.
C2_ReturnedLocatorExists ==
  [][\A p \in Tasks :
       (Returns(p) /\ op[p].cmd = "copy_file_to_assets" /\ ret'[p].status = "Ok") =>
         /\ ("assets/" \o ret'[p].path) \in DOMAIN files'
         /\ ret'[p].path \in WellFormedLocators(op[p].source_path)]_vars

\* C3: fs::remove_file of delete_asset_file on a file that is there removes it
\* and the call returns true; a delete_asset_file call on a locator that was
\* deleted and not ingested again returns Ok(false) and leaves the file absent.
C3_DeleteThenDeleteAgain ==
  [][\A p \in Tasks :
       /\ (/\ pc[p] = "remove_file" /\ pc'[p] # "remove_file"
           /\ ("assets/" \o op[p].relative_path) \in DOMAIN files) =>
             /\ ret'[p] = Ok("", TRUE, <<>>)
             /\ ("assets/" \o op[p].relative_path) \notin DOMAIN files'
       /\ (/\ pc[p] = "idle" /\ op'[p].cmd = "delete_asset_file"
           /\ op'[p].relative_path \in removed) =>
             /\ pc'[p] = "done"
             /\ ret'[p] = Ok("", FALSE, <<>>)
             /\ ("assets/" \o op'[p].relative_path) \notin DOMAIN files']_vars

C3_Witness ==
  \E p \in Tasks :
    /\ pc[p] = "done"
    /\ op[p].cmd = "delete_asset_file"
    /\ op[p].relative_path \in removed
    /\ ret[p] = Ok("", FALSE, <<>>)
    /\ ("assets/" \o op[p].relative_path) \notin DOMAIN files

\* C4: a copy_file_to_assets call whose source_path is not an existing file
\* returns an error and none of its steps creates a file or a directory.
C4_FailedIngestChangesNothing ==
  [][\A p \in Tasks :
       (/\ pc'[p] # pc[p]
        /\ op'[p].cmd = "copy_file_to_assets"
        /\ srcFS[op'[p].source_path].kind # "file") =>
          /\ dirs' = dirs
          /\ files' = files
          /\ pc'[p] = "done" => ret'[p].status = "Err"]_vars

\* C5: at every instant a file under assets/<category>/ holds the complete
\* content of the source it was copied from.
C5_NoPartialTarget ==
  \A path \in DOMAIN files : files[path] = srcFS[SrcFile].data

\* C6: delete_asset_file behaves as one atomic step: a call that found the file
\* returns true if the file is still there when it removes it and false if
\* another call removed it first, never an error.
C6_DeleteIsAtomic ==
  [][\A p \in Tasks :
       (pc[p] = "remove_file" /\ pc'[p] = "done") =>
         ret'[p] =
           Ok("", ("assets/" \o op[p].relative_path) \in DOMAIN files, <<>>)]_vars

\* The keys of a result list.
ResultKeys(results) ==
  {<<results[i].entity_type, results[i].entity_id>> : i \in DOMAIN results}

\* C7: fts_search for a token of the content of a record that was upserted and
\* not removed returns that record's key.
C7_UpsertThenQueryFinds ==
  [][\A p \in Tasks :
       (Returns(p) /\ op'[p].cmd = "fts_search") =>
         \A k \in DOMAIN indexed :
           op'[p].query \in indexed[k] => k \in ResultKeys(ret'[p].results)]_vars

\* C8: fts_remove_entity returns true exactly when the key was upserted and not
\* removed before the call, and false, not an error, otherwise.
C8_RemoveReportsPresence ==
  [][\A p \in Tasks :
       (Returns(p) /\ op'[p].cmd = "fts_remove_entity") =>
         ret'[p] =
           Ok("", <<op'[p].entity_type, op'[p].entity_id>> \in DOMAIN indexed, <<>>)]_vars

\* The five directories of the layout.
Skeleton == {"assets/pdfs", "assets/images", "assets/other", "backups", "temp"}

\* C9: a successful ensure_directory_structure leaves the five directories
\* existing; no command removes a directory; and a call made when the five
\* exist succeeds and changes neither the directories nor the files.
C9_EnsureIdempotent ==
  [][/\ dirs \subseteq dirs'
     /\ \A p \in Tasks :
          (pc[p] = "idle" /\ op'[p].cmd = "ensure_directory_structure") =>
            /\ pc'[p] = "done"
            /\ files' = files
            /\ ret'[p].status = "Ok" => Skeleton \subseteq dirs'
            /\ Skeleton \subseteq dirs =>
                 (ret'[p] = Ok("", TRUE, <<>>) /\ dirs' = dirs)]_vars

C9_Witness ==
  /\ \A p \in Tasks :
       /\ pc[p] = "done"
       /\ op[p].cmd = "ensure_directory_structure"
       /\ ret[p] = Ok("", TRUE, <<>>)
  /\ Skeleton \subseteq dirs

\* The category the claim assigns to a file_type.
Category(file_type) ==
  CASE file_type = "pdf" -> "pdfs"
    [] file_type = "image" -> "images"
    [] OTHER -> "other"

\* C10: copy_file_to_assets creates its target in the category of file_type
\* (pdfs for exactly "pdf", images for exactly "image", other otherwise); when
\* it returns Ok the locator is prefixed by that category, the category
\* directory exists and the file the call wrote holds the source's content; no
\* step changes a source file.
C10_RoutesByFileType ==
  [][/\ srcFS' = srcFS
     /\ \A p \in Tasks :
          LET cat == Category(op[p].file_type)
              name == frame'[p].new_filename
          IN /\ (pc[p] = "copy_open" /\ pc'[p] = "copy_data") =>
                  /\ ("assets/" \o cat \o "/" \o name) \in DOMAIN files'
                  /\ ("assets/" \o cat) \in dirs'
             /\ (/\ Returns(p) /\ op[p].cmd = "copy_file_to_assets"
                 /\ ret'[p].status = "Ok") =>
                  /\ ret'[p].path = cat \o "/" \o name
                  /\ ("assets/" \o cat) \in dirs'
                  /\ frame'[p].linked =>
                       /\ ("assets/" \o ret'[p].path) \in DOMAIN files'
                       /\ files'[("assets/" \o ret'[p].path)]
                            = srcFS[op[p].source_path].data]_vars

C10_Witness ==
  \E p \in Tasks :
    /\ CopiedOk(p)
    /\ op[p].file_type = "PDF"
    /\ ret[p].path = "other/" \o frame[p].new_filename
    /\ "assets/other" \in dirs
    /\ ("assets/" \o ret[p].path) \in DOMAIN files
    /\ files["assets/" \o ret[p].path] = srcFS[op[p].source_path].data
    /\ srcFS = InitSrcFS

====
